---- MODULE Spec2Model ----
(***************************************************************************)
(* Model of the Obsidian Rclone Bridge plugin (multi-destination version): *)
(* the single-flight guard, the sequential loop of handleSync over the     *)
(* enabled remotes, runRcloneSync with its child process events, the       *)
(* settings panel that edits the configuration while a run is suspended,   *)
(* and the settings as they are stored, saved and loaded again.            *)
(*                                                                         *)
(* Strings that the code inspects (paths, names) are sequences of          *)
(* one-character strings, so that includes(":"), trim() and template       *)
(* concatenation are computed and not assumed.                             *)
(*                                                                         *)
(* The host is a single-threaded event loop.  A handler (a click, an input *)
(* change, a child process event) runs to its first real suspension; the   *)
(* continuations of already settled promises (pc = "loop") run before any  *)
(* further handler is dispatched.                                          *)
(***************************************************************************)
EXTENDS Integers, Sequences, FiniteSets, TLC

\* ------------------------------------------------------------------ bounds
\* Largest number of remote objects ever created through the settings panel.
MaxRemotes == 2
\* Largest number of failed-spawn children whose 'close' is still to come.
MaxPendingClose == 1
\* Largest number of loads that are followed making a remote of the old
\* fields.
MaxMigrations == 2
\* Longest name and longest path of a remote in the runs of runRcloneSync
\* on its inputs.
MaxLen == 2

\* ----------------------------------------------------------------- strings
EmptyStr == << >>
Str1(c) == << c >>

\* String.prototype.includes for a one-character needle.
Includes(s, c) == \E i \in 1..Len(s) : s[i] = c

RECURSIVE TrimStart(_)
TrimStart(s) == IF s # << >> /\ Head(s) = " " THEN TrimStart(Tail(s)) ELSE s

RECURSIVE TrimEnd(_)
TrimEnd(s) ==
    IF s # << >> /\ s[Len(s)] = " " THEN TrimEnd(SubSeq(s, 1, Len(s) - 1)) ELSE s

\* String.prototype.trim (the only whitespace of the inputs is the blank).
Trim(s) == TrimEnd(TrimStart(s))

\* What the user can type into the text fields of the settings panel.
PathInputs == { <<" ">>, <<"r", ":", "v">> }
NameInputs == { << >>, <<" ", "a">> }
ExeInputs  == { << >>, <<"x", " ">> }

\* ------------------------------------------------------------------- state
VARIABLES
    loaded,          \* onload has run (ribbon icon, status bar, settings tab)
    statusBar,       \* text of the status bar item, "null" before onload
    isSyncing,       \* the single-flight flag
    rclonePath,      \* settings.rclonePath
    remotes,         \* settings.remotes: sequence of references into objs
    objs,            \* the RcloneRemote objects, by reference
    vaultPath,       \* what getBasePath?.() yields (EmptyStr: unavailable)
    pc,              \* "idle" | "loop" (continuation ready) | "await"
    enabledRemotes,  \* local of handleSync: the filtered array
    pos,             \* position of the for..of iterator in enabledRemotes
    results,         \* local of handleSync: results pushed so far
    children,        \* child processes that may still emit an event
    notice,          \* the Notice shown by the last step, if any
    request,         \* the last step was a call of handleSync
    invocations,     \* history: the calls of runRcloneSync of this run
    atStart,         \* history: the configuration when this run started
    data,            \* the stored settings (data.json), read by loadData
    legacy,          \* settings.remoteName / remotePath, when data had them
    migrated         \* history: the loads that made a remote of the old fields

vars == << loaded, statusBar, isSyncing, rclonePath, remotes, objs, vaultPath,
           pc, enabledRemotes, pos, results, children, notice, request,
           invocations, atStart, data, legacy, migrated >>

settingsVars == << rclonePath, remotes, objs >>
runVars == << pc, enabledRemotes, pos, results, invocations, atStart >>
storageVars == << data, legacy, migrated >>

NoNotice == [kind |-> "None"]
NoStart == [exe |-> EmptyStr, enabled |-> << >>, addrs |-> << >>]

\* DEFAULT_SETTINGS
DEFAULT_SETTINGS == [rclonePath |-> EmptyStr, remotes |-> << >>]

\* A field that a stored object may lack: << >>, or << v >> when it is there.
Absent == << >>
Some(v) == << v >>

\* loadData yields null (there is no data.json): no field at all.
NoData ==
    [rclonePath |-> Absent, remotes |-> Absent, remoteName |-> Absent,
     remotePath |-> Absent]

\* The settings object of this version has no remoteName and no remotePath
\* unless Object.assign copied them from the stored data.
NoLegacy == [remoteName |-> Absent, remotePath |-> Absent]

\* The state after construction of the plugin object (field initialisers),
\* whatever is stored.
Constructed ==
    /\ loaded = FALSE
    /\ statusBar = "null"
    /\ isSyncing = FALSE
    /\ rclonePath = DEFAULT_SETTINGS.rclonePath
    /\ remotes = DEFAULT_SETTINGS.remotes
    /\ objs = << >>
    /\ vaultPath \in { EmptyStr, Str1("/") }
    /\ pc = "idle"
    /\ enabledRemotes = << >>
    /\ pos = 0
    /\ results = << >>
    /\ children = << >>
    /\ notice = NoNotice
    /\ request = FALSE
    /\ invocations = << >>
    /\ atStart = NoStart
    /\ legacy = NoLegacy
    /\ migrated = 0

\* The plugin is installed and enabled for the first time: nothing is stored.
Init ==
    /\ Constructed
    /\ data = NoData

\* ------------------------------------------------------- loadSettings
\* Object.assign({}, DEFAULT_SETTINGS, data): every field of data, and the
\* default of a field that data lacks.
Assigned(d) ==
    [rclonePath |-> IF d.rclonePath # Absent THEN d.rclonePath[1]
                    ELSE DEFAULT_SETTINGS.rclonePath,
     remotes |-> IF d.remotes # Absent THEN d.remotes[1]
                 ELSE DEFAULT_SETTINGS.remotes,
     remoteName |-> d.remoteName,
     remotePath |-> d.remotePath]

\* A field that is there and is not the empty string.
Truthy(field) == field # Absent /\ field[1] # EmptyStr

\* field || ""
OrEmpty(field) == IF Truthy(field) THEN field[1] ELSE EmptyStr

\* The condition of the migration in loadSettings.
Migrates(d) ==
    /\ Len(Assigned(d).remotes) = 0
    /\ (Truthy(d.remoteName) \/ Truthy(d.remotePath))

\* The settings object that loadSettings leaves.
loadSettings(d) ==
    IF Migrates(d)
    THEN [Assigned(d) EXCEPT !.remotes =
            << [name |-> OrEmpty(d.remoteName), path |-> OrEmpty(d.remotePath),
                enable |-> TRUE] >>]
    ELSE Assigned(d)

\* saveSettings: saveData(this.settings), every field of the settings object.
Saved(path, rs, os, lg) ==
    [rclonePath |-> Some(path),
     remotes |-> Some([i \in 1..Len(rs) |-> os[rs[i]]]),
     remoteName |-> lg.remoteName,
     remotePath |-> lg.remotePath]

\* updateStatus: no effect while there is no status bar item.
updateStatus(bar, status) == IF bar = "null" THEN bar ELSE status

\* onload: settings loaded from the stored data (the remotes of the data are
\* new objects), ribbon icon, status bar item showing "Ready", settings tab.
OnLoad ==
    /\ ~loaded
    /\ loaded' = TRUE
    /\ LET settings == loadSettings(data)
       IN  /\ rclonePath' = settings.rclonePath
           /\ objs' = settings.remotes
           /\ remotes' = [i \in 1..Len(settings.remotes) |-> i]
           /\ legacy' = [remoteName |-> settings.remoteName,
                         remotePath |-> settings.remotePath]
    /\ migrated' = IF Migrates(data) THEN migrated + 1 ELSE migrated
    /\ statusBar' = updateStatus("created", "Ready")
    /\ notice' = NoNotice
    /\ request' = FALSE
    /\ UNCHANGED << isSyncing, vaultPath, children, data >>
    /\ UNCHANGED runVars

\* The plugin is disabled or the application is closed: the plugin object is
\* gone and the next onload runs on a new one; what is stored stays.
Unload ==
    /\ loaded
    /\ pc = "idle"
    /\ migrated < MaxMigrations
    /\ loaded' = FALSE
    /\ statusBar' = "null"
    /\ isSyncing' = FALSE
    /\ rclonePath' = DEFAULT_SETTINGS.rclonePath
    /\ remotes' = DEFAULT_SETTINGS.remotes
    /\ objs' = << >>
    /\ legacy' = NoLegacy
    /\ notice' = NoNotice
    /\ request' = FALSE
    /\ UNCHANGED << vaultPath, children, data, migrated >>
    /\ UNCHANGED runVars

\* ---------------------------------------------------------- settings panel
\* Every handler of the panel changes the settings object and saves it; the
\* panel is usable once the settings tab is registered, and a handler is
\* dispatched only when no continuation is ready to run.
PanelOpen == loaded /\ pc # "loop"

\* The end of every handler of the panel: await this.plugin.saveSettings().
PanelFrame ==
    /\ data' = Saved(rclonePath', remotes', objs', legacy)
    /\ notice' = NoNotice
    /\ request' = FALSE
    /\ UNCHANGED << loaded, statusBar, isSyncing, vaultPath, children >>
    /\ UNCHANGED << legacy, migrated >>
    /\ UNCHANGED runVars

\* onChange of the "rclone path" text field.
SetRclonePath(value) ==
    /\ PanelOpen
    /\ rclonePath' = Trim(value)
    /\ UNCHANGED << remotes, objs >>
    /\ PanelFrame

\* onChange of the name field of the remote rendered at index i.
SetRemoteName(i, value) ==
    /\ PanelOpen
    /\ i \in 1..Len(remotes)
    /\ objs' = [objs EXCEPT ![remotes[i]].name = Trim(value)]
    /\ UNCHANGED << rclonePath, remotes >>
    /\ PanelFrame

\* onChange of the path field of the remote rendered at index i.
SetRemotePath(i, value) ==
    /\ PanelOpen
    /\ i \in 1..Len(remotes)
    /\ objs' = [objs EXCEPT ![remotes[i]].path = Trim(value)]
    /\ UNCHANGED << rclonePath, remotes >>
    /\ PanelFrame

\* onChange of the toggle of the remote rendered at index i.
SetRemoteEnable(i) ==
    /\ PanelOpen
    /\ i \in 1..Len(remotes)
    /\ objs' = [objs EXCEPT ![remotes[i]].enable = ~objs[remotes[i]].enable]
    /\ UNCHANGED << rclonePath, remotes >>
    /\ PanelFrame

RemoveAt(seq, i) == SubSeq(seq, 1, i - 1) \o SubSeq(seq, i + 1, Len(seq))

\* A new remote: {name: "", path: "", enable: true}.
NewRemote == [name |-> EmptyStr, path |-> EmptyStr, enable |-> TRUE]

Range(seq) == { seq[i] : i \in 1..Len(seq) }

\* An object that neither the settings nor a run in progress refers to can no
\* longer be read by the program; its fields are forgotten.
Collected(os, live) ==
    [i \in 1..Len(os) |-> IF i \in live THEN os[i] ELSE NewRemote]

\* onClick of the trash button: remotes.splice(index, 1).
DeleteRemote(i) ==
    /\ PanelOpen
    /\ i \in 1..Len(remotes)
    /\ remotes' = RemoveAt(remotes, i)
    /\ objs' = Collected(objs, Range(remotes') \cup Range(enabledRemotes))
    /\ UNCHANGED rclonePath
    /\ PanelFrame

\* onClick of the "add" button: remotes.push({name: "", path: "", enable: true}).
AddRemote ==
    /\ PanelOpen
    /\ Len(objs) < MaxRemotes
    /\ objs' = Append(objs, NewRemote)
    /\ remotes' = Append(remotes, Len(objs) + 1)
    /\ UNCHANGED rclonePath
    /\ PanelFrame

\* ------------------------------------------------------------- handleSync
\* A guard that never refuses.
AlreadyRunning_Never == FALSE

\* The guard at the entry of handleSync.
AlreadyRunning == isSyncing

\* The list taken without the filter.
EnabledRemotes_All(rs, os) == rs

\* (this.settings.remotes || []).filter((r) => r.enable): a new array of the
\* same objects.
EnabledRemotes(rs, os) == SelectSeq(rs, LAMBDA r : os[r].enable)

\* A run that ends without the finally block.
GuardAfterRun_Kept == isSyncing

\* The finally block of handleSync: this.isSyncing = false.
GuardAfterRun == FALSE

\* The name before the path, whatever the path holds.
remoteTarget_NameFirst(remote) ==
    IF remote.name # EmptyStr
    THEN remote.name \o <<":">> \o remote.path
    ELSE IF Includes(remote.path, ":") THEN remote.path ELSE EmptyStr

\* An address that is never missing.
remoteTarget_Joined(remote) ==
    IF Includes(remote.path, ":")
    THEN remote.path
    ELSE remote.name \o <<":">> \o remote.path

\* remoteTarget of runRcloneSync.
remoteTarget(remote) ==
    IF Includes(remote.path, ":")
    THEN remote.path
    ELSE IF remote.name # EmptyStr
         THEN remote.name \o <<":">> \o remote.path
         ELSE EmptyStr

\* History only: the configuration as it is when a run starts.  The targets
\* enabled are always recorded; the executable and the addresses only in the
\* specification that follows them (track).
ConfigNow(track) ==
    LET en == SelectSeq(remotes, LAMBDA r : objs[r].enable)
    IN  [exe |-> IF track THEN rclonePath ELSE EmptyStr,
         enabled |-> en,
         addrs |-> IF track
                   THEN [i \in 1..Len(en) |-> remoteTarget(objs[en[i]])]
                   ELSE << >>]

\* A run that leaves the status as it was.
SyncingStatus_Ready == "Ready"

\* The status that handleSync shows right after it has set isSyncing.
SyncingStatus == "Syncing"

\* handleSync returns: its locals are gone.
NoLocals ==
    /\ objs' = Collected(objs, Range(remotes))
    /\ enabledRemotes' = << >>
    /\ pos' = 0
    /\ results' = << >>
    /\ invocations' = << >>
    /\ atStart' = NoStart

\* A click on the ribbon icon: handleSync up to its first suspension.
HandleSync(track) ==
    /\ loaded
    /\ pc # "loop"
    /\ request' = TRUE
    /\ UNCHANGED << loaded, vaultPath, children, storageVars >>
    /\ IF AlreadyRunning
       THEN /\ notice' = [kind |-> "AlreadyRunning"]
            /\ UNCHANGED << statusBar, isSyncing, settingsVars >>
            /\ UNCHANGED runVars
       ELSE LET snapshot == EnabledRemotes(remotes, objs)
                syncing == updateStatus(statusBar, SyncingStatus)
            IN  IF Len(snapshot) = 0
                THEN \* throw, catch, finally in the same synchronous step
                     /\ statusBar' = updateStatus(syncing, "Failed")
                     /\ notice' = [kind |-> "Error", message |-> "NoEnabledRemote"]
                     /\ isSyncing' = GuardAfterRun
                     /\ pc' = "idle"
                     /\ UNCHANGED << rclonePath, remotes >>
                     /\ NoLocals
                ELSE /\ isSyncing' = TRUE
                     /\ statusBar' = syncing
                     /\ notice' = NoNotice
                     /\ enabledRemotes' = snapshot
                     /\ pos' = 1
                     /\ results' = << >>
                     /\ invocations' = << >>
                     /\ atStart' = ConfigNow(track)
                     /\ UNCHANGED settingsVars
                     /\ pc' = "loop"

\* ---------------------------------------------------------- output parser
\* What the patterns of the close handler find in `${stdout}\n${stderr}`:
\* size: group 1 of the size pair (EmptyStr: no match), files: group 1 of the
\* count pair (<< >>: no match), checks: groups 1 and 2 of the checks pair,
\* phrase: the no-changes pattern matches.  stdout and stderr say whether the
\* buffers are empty.  The durations shown are wall-clock and left out.
NoOutput ==
    [stdout |-> "", stderr |-> "", size |-> EmptyStr, files |-> << >>,
     checks |-> << >>, phrase |-> FALSE]

SizedOutput ==
    [stdout |-> "out", stderr |-> "err", size |-> <<"1", "B">>, files |-> << >>,
     checks |-> <<2, 2>>, phrase |-> FALSE]

\* The outputs a child of a run may have produced.
RunOutputs == { SizedOutput }

\* Every combination of empty and non-empty buffers and of matches; a pattern
\* can only match when there is some text.
AllOutputs ==
    { IF b = <<"", "">>
      THEN NoOutput
      ELSE [stdout |-> b[1], stderr |-> b[2], size |-> s, files |-> f,
            checks |-> c, phrase |-> p] :
        b \in { <<"", "">>, <<"", "err">>, <<"out", "">>, <<"out", "err">> },
        s \in { EmptyStr, <<"1", "B">> },
        f \in { << >>, <<0>>, <<3>> },
        c \in { << >>, <<2, 5>> },
        p \in BOOLEAN }

\* A summary that looks at the size first.
Summary_SizeFirst(out) ==
    IF out.size # EmptyStr
    THEN [form |-> "Sized", files |-> out.files, size |-> out.size,
          checks |-> out.checks]
    ELSE IF (out.files # << >> /\ out.files[1] = 0) \/ out.phrase
         THEN [form |-> "UpToDate"]
         ELSE [form |-> "Done"]

\* The summary computed by the close handler.
Summary(out) ==
    LET transferredSize == out.size
        noChanges == (out.files # << >> /\ out.files[1] = 0) \/ out.phrase
    IN  IF noChanges
        THEN [form |-> "UpToDate"]
        ELSE IF transferredSize # EmptyStr
             THEN [form |-> "Sized", files |-> out.files, size |-> transferredSize,
                   checks |-> out.checks]
             ELSE [form |-> "Done"]

\* stderr alone, as in the version with one remote.
Diagnostic_Stderr(out) == out.stderr

\* `stderr || stdout` of the rejection message.
Diagnostic(out) == IF out.stderr # "" THEN out.stderr ELSE out.stdout

\* Exit codes of 'close': 0 or non-zero and, in the full environment, null
\* (the process was ended by a signal).
ExitCodes(full) == IF full THEN { << >>, <<0>>, <<1>> } ELSE { <<0>>, <<1>> }

\* ------------------------------------------------------- the loop of handleSync
\* An iteration over the enabled remotes of the settings as they are now.
CurrentRemote_Live ==
    LET now == SelectSeq(remotes, LAMBDA r : objs[r].enable)
    IN  IF pos <= Len(now) THEN now[pos] ELSE enabledRemotes[pos]

\* The element the for..of iterator yields.
CurrentRemote == enabledRemotes[pos]

\* unshift in the place of push.
Pushed_Unshift(res, remote, success, summary) ==
    << [remote |-> remote, success |-> success, summary |-> summary] >> \o res

\* results.push of the try branch and of the catch branch of the loop.
Pushed(res, remote, success, summary) ==
    Append(res, [remote |-> remote, success |-> success, summary |-> summary])

\* A failure that ends the loop.
NextPos_Abort(p, success) == IF success THEN p + 1 ELSE Len(enabledRemotes) + 1

\* A failure that is tried again.
NextPos_Retry(p, success) == IF success THEN p + 1 ELSE p

\* The position of the loop after an iteration: the catch branch falls
\* through to the next element like the try branch.
NextPos(p, success) == p + 1

\* The awaited promise has settled (or runRcloneSync threw): one result is
\* pushed and the loop goes on.
Settled(success, value) ==
    /\ results' = Pushed(results, CurrentRemote, success,
                         IF success THEN value
                         ELSE [form |-> "Failed", message |-> value])
    /\ pos' = NextPos(pos, success)
    /\ pc' = "loop"
    /\ UNCHANGED << enabledRemotes, atStart >>

\* History: how the last invocation ended.
Ended(how) ==
    invocations' = [invocations EXCEPT ![Len(invocations)].end = how]

\* History: the last invocation was ended by the 'close' handler, which was
\* given the exit code `code` and computed the summary of `out` before it
\* looked at the code (out is recorded under track only).
Closed(track, how, code, out) ==
    invocations' = [invocations EXCEPT
        ![Len(invocations)].end = how,
        ![Len(invocations)].parsed = TRUE,
        ![Len(invocations)].code = code,
        ![Len(invocations)].out = IF track THEN << out >> ELSE << >>]

\* History: runRcloneSync is called for a remote; exe and addr are the
\* rclonePath and the remoteTarget it computed (recorded under track only).
Invoked(track, remote, exe, addr, how) ==
    invocations' = Append(invocations,
        [remote |-> remote, end |-> how,
         exe |-> IF track THEN exe ELSE EmptyStr,
         addr |-> IF track THEN addr ELSE EmptyStr,
         parsed |-> FALSE, code |-> << >>, out |-> << >>])

\* spawn(rclonePath, args, {shell: false}): the child, which is "running",
\* "spawnFailed" ('error' to come) or "errored" ('close' to come).
Child(state) == [state |-> state]

\* A loop that goes on without awaiting the promise.
AfterSpawn_NoAwait == "loop"

\* `await this.runRcloneSync(remote)` on a pending promise: handleSync is
\* suspended until the promise settles.
AfterSpawn == "await"

PendingClose == { i \in 1..Len(children) : children[i].state = "errored" }

\* One iteration of the loop up to its suspension: runRcloneSync(remote)
\* checks its preconditions and spawns the child.  spawn starts the process
\* or fails later ('error' event); in the full environment it may also throw
\* (the promise executor turns that into a rejection).
InvokeRunner(track, full) ==
    /\ pc = "loop"
    /\ pos <= Len(enabledRemotes)
    /\ notice' = NoNotice
    /\ request' = FALSE
    /\ UNCHANGED << loaded, statusBar, isSyncing, settingsVars, vaultPath >>
    /\ UNCHANGED storageVars
    /\ LET remote == objs[CurrentRemote]
           target == remoteTarget(remote)
       IN  IF rclonePath = EmptyStr
           THEN /\ Settled(FALSE, [kind |-> "NoRclonePath"])
                /\ Invoked(track, CurrentRemote, rclonePath, target, "precondition")
                /\ UNCHANGED children
           ELSE IF vaultPath = EmptyStr
           THEN /\ Settled(FALSE, [kind |-> "NoVaultPath"])
                /\ Invoked(track, CurrentRemote, rclonePath, target, "precondition")
                /\ UNCHANGED children
           ELSE IF target = EmptyStr
           THEN /\ Settled(FALSE, [kind |-> "NoRemoteTarget"])
                /\ Invoked(track, CurrentRemote, rclonePath, target, "precondition")
                /\ UNCHANGED children
           ELSE \/ /\ children' = Append(children, Child("running"))
                   /\ Invoked(track, CurrentRemote, rclonePath, target, "pending")
                   /\ pc' = AfterSpawn
                   /\ UNCHANGED << enabledRemotes, pos, results, atStart >>
                \/ /\ Cardinality(PendingClose) < MaxPendingClose
                   /\ children' = Append(children, Child("spawnFailed"))
                   /\ Invoked(track, CurrentRemote, rclonePath, target, "pending")
                   /\ pc' = AfterSpawn
                   /\ UNCHANGED << enabledRemotes, pos, results, atStart >>
                \/ /\ full
                   /\ Settled(FALSE, [kind |-> "SpawnThrew"])
                   /\ Invoked(track, CurrentRemote, rclonePath, target, "threw")
                   /\ UNCHANGED children


EventFrame ==
    /\ notice' = NoNotice
    /\ request' = FALSE
    /\ UNCHANGED << loaded, statusBar, isSyncing, settingsVars, vaultPath >>
    /\ UNCHANGED storageVars

\* 'error' event of child i (the process could not be spawned): reject(error).
\* The 'close' event that follows finds the promise settled and changes
\* nothing; it is a step of its own in the full environment only.
ChildError(full, i) ==
    /\ pc # "loop"
    /\ i \in 1..Len(children)
    /\ children[i].state = "spawnFailed"
    /\ children' = IF full
                   THEN [children EXCEPT ![i] = Child("errored")]
                   ELSE RemoveAt(children, i)
    /\ Settled(FALSE, [kind |-> "SpawnError"])
    /\ Ended("error")
    /\ EventFrame

\* A second rejection that resumes the loop once more.
AlreadySettled_Again ==
    IF pc = "await"
    THEN Settled(FALSE, [kind |-> "SpawnError"]) /\ UNCHANGED invocations
    ELSE UNCHANGED runVars

\* reject on a promise that 'error' has already rejected: no effect.
AlreadySettled == UNCHANGED runVars

\* 'close' event of child i, with an exit code of codes and an output of
\* outs.  For a running process: the summary is computed, then resolve or
\* reject by the exit code.  After 'error' the promise is already settled and
\* the second reject has no effect.
Close(track, codes, outs, i) ==
    /\ pc # "loop"
    /\ i \in 1..Len(children)
    /\ children' = RemoveAt(children, i)
    /\ EventFrame
    /\ \/ /\ children[i].state = "running"
          /\ \E code \in codes, out \in outs :
                LET summary == Summary(out)
                IN  IF code = <<0>>
                    THEN /\ Settled(TRUE, summary)
                         /\ Closed(track, "exit0", code, out)
                    ELSE /\ Settled(FALSE, [kind |-> "Exit", code |-> code,
                                            text |-> Diagnostic(out)])
                         /\ Closed(track, "exitN", code, out)
       \/ /\ children[i].state = "errored"
          /\ AlreadySettled

\* 'close' event of child i of a run.
ChildClose(full, i) == Close(FALSE, ExitCodes(full), RunOutputs, i)

\* some in the place of every.
AllSuccess_Some(res) == \E i \in 1..Len(res) : res[i].success

\* results.every((r) => r.success)
AllSuccess(res) == \A i \in 1..Len(res) : res[i].success

\* r.remote.name || "(unnamed)"
Label(name) == IF name # EmptyStr THEN name ELSE <<"?">>

\* The lines of the final notice after its first line.
Lines(res) ==
    [i \in 1..Len(res) |->
        [label |-> Label(objs[res[i].remote].name), summary |-> res[i].summary]]

\* After the loop: status, final notice, finally.
Finish ==
    /\ pc = "loop"
    /\ pos > Len(enabledRemotes)
    /\ statusBar' = updateStatus(statusBar,
                        IF AllSuccess(results) THEN "Success" ELSE "Failed")
    /\ notice' = [kind |-> "Complete", lines |-> Lines(results)]
    /\ isSyncing' = GuardAfterRun
    /\ pc' = "idle"
    /\ NoLocals
    /\ request' = FALSE
    /\ UNCHANGED << loaded, rclonePath, remotes, vaultPath, children >>
    /\ UNCHANGED storageVars

\* ------------------------------------------------------------ specification
Steps(track, full) ==
    \/ OnLoad
    \/ HandleSync(track)
    \/ InvokeRunner(track, full)
    \/ Finish
    \/ \E i \in 1..(MaxRemotes + MaxPendingClose) : ChildError(full, i)
    \/ \E i \in 1..(MaxRemotes + MaxPendingClose) : ChildClose(full, i)
    \/ \E v \in ExeInputs : SetRclonePath(v)
    \/ \E i \in 1..MaxRemotes, v \in NameInputs : SetRemoteName(i, v)
    \/ \E i \in 1..MaxRemotes, v \in PathInputs : SetRemotePath(i, v)
    \/ \E i \in 1..MaxRemotes : SetRemoteEnable(i)
    \/ \E i \in 1..MaxRemotes : DeleteRemote(i)
    \/ AddRemote

Next == Steps(FALSE, FALSE)

\* The program in the plain environment: a child that was started exits with
\* code 0 or 1, a child that was not started emits 'error'.
Spec == Init /\ [][Next]_vars

\* The same program, with the history of executables and addresses kept.
NextTracked == Steps(TRUE, FALSE)

SpecTracked == Init /\ [][NextTracked]_vars

\* The same program in the full environment: a child may be ended by a
\* signal, spawn may throw, and the 'close' after an 'error' is followed.
NextFull == Steps(FALSE, TRUE)

SpecFull == Init /\ [][NextFull]_vars

\* Fairness: a continuation that is ready runs (the host drains its queue of
\* settled promises), and every child emits the event that settles its
\* promise.
Fairness ==
    /\ WF_vars(InvokeRunner(FALSE, FALSE))
    /\ WF_vars(Finish)
    /\ WF_vars(\E i \in 1..(MaxRemotes + MaxPendingClose) : ChildError(FALSE, i))
    /\ WF_vars(\E i \in 1..(MaxRemotes + MaxPendingClose) : ChildClose(FALSE, i))

SpecLive == Init /\ [][Next]_vars /\ Fairness

\* ----------------------------------------------- the stored settings over loads
\* What the old version of the plugin (one remote: rclonePath, remoteName,
\* remotePath) may have stored in the two old fields.
LegacyNames == { EmptyStr, <<"a">> }
LegacyPaths == { EmptyStr, <<"v">> }

\* What data.json may hold when the plugin is loaded: nothing, or an object
\* with or without a list of remotes and with or without the old fields.
StoredInputs ==
    { NoData } \cup
    { [rclonePath |-> Some(<<"x">>), remotes |-> r, remoteName |-> n,
       remotePath |-> q] :
        r \in { Absent, Some(<< >>),
                Some(<< [name |-> <<"b">>, path |-> EmptyStr, enable |-> FALSE] >>) },
        n \in { Absent } \cup { Some(v) : v \in LegacyNames },
        q \in { Absent } \cup { Some(v) : v \in LegacyPaths } }

InitStorage ==
    /\ Constructed
    /\ data \in StoredInputs

\* The plugin over several sessions: it is loaded, the settings are edited
\* and saved in the panel, it is unloaded and loaded again.
NextStorage ==
    \/ OnLoad
    \/ Unload
    \/ \E v \in ExeInputs : SetRclonePath(v)
    \/ \E i \in 1..MaxRemotes, v \in NameInputs : SetRemoteName(i, v)
    \/ \E i \in 1..MaxRemotes, v \in PathInputs : SetRemotePath(i, v)
    \/ \E i \in 1..MaxRemotes : SetRemoteEnable(i)
    \/ \E i \in 1..MaxRemotes : DeleteRemote(i)
    \/ AddRemote

SpecStorage == InitStorage /\ [][NextStorage]_vars

\* ------------------------------------------------- runRcloneSync on its inputs
\* The characters of the names and paths followed, and the strings of at most
\* n of them (trimmed, as the panel stores them).
RunnerChars == { "a", ":" }

RECURSIVE Strings(_)
Strings(n) ==
    IF n = 0 THEN { EmptyStr }
    ELSE Strings(n - 1) \cup
         { Append(t, c) : t \in Strings(n - 1), c \in RunnerChars }

\* Stored settings with one enabled remote of any name and path, and with or
\* without a path of the executable.
RunnerInputs ==
    { [rclonePath |-> Some(e),
       remotes |-> Some(<< [name |-> n, path |-> q, enable |-> TRUE] >>),
       remoteName |-> Absent, remotePath |-> Absent] :
        e \in { EmptyStr, <<"x">> },
        n \in Strings(MaxLen), q \in Strings(MaxLen) }

InitRunner ==
    /\ Constructed
    /\ data \in RunnerInputs

\* The plugin loaded with these settings and run: every exit code and every
\* output of the child, with the history of what runRcloneSync was given.
NextRunner ==
    \/ OnLoad
    \/ HandleSync(TRUE)
    \/ InvokeRunner(TRUE, TRUE)
    \/ Finish
    \/ \E i \in 1..(MaxRemotes + MaxPendingClose) : ChildError(TRUE, i)
    \/ \E i \in 1..(MaxRemotes + MaxPendingClose) :
          Close(TRUE, ExitCodes(TRUE), AllOutputs, i)

SpecRunner == InitRunner /\ [][NextRunner]_vars

\* ------------------------------------------------------------------ claims
\* The point after the for loop of handleSync, before the final status.
LoopDone == pc = "loop" /\ pos > Len(enabledRemotes)

\* The step that ends a run which went through the loop.
RunEnds == pc = "loop" /\ pc' = "idle"

IsFailure(summary) == summary.form = "Failed"

Running == { i \in 1..Len(children) : children[i].state = "running" }

\* The children whose promise is still pending.
Unsettled ==
    { i \in 1..Len(children) : children[i].state \in {"running", "spawnFailed"} }

\* C1: a call of handleSync while isSyncing is true shows the "already in
\* progress" notice and changes nothing else: the flag, the status text, the
\* locals of the run in flight, the children and the settings stay as they
\* are; and a run only ever starts in a call of handleSync made while
\* isSyncing is false (a refused call is not queued).
C1_SingleFlight ==
    [][ /\ (isSyncing /\ request') =>
            /\ notice' = [kind |-> "AlreadyRunning"]
            /\ isSyncing'
            /\ statusBar' = statusBar
            /\ UNCHANGED << pc, enabledRemotes, pos, results, invocations >>
            /\ UNCHANGED << children, rclonePath, remotes, objs >>
        /\ (enabledRemotes = << >> /\ enabledRemotes' # << >>) =>
            (request' /\ ~isSyncing)
        /\ Len(children') > Len(children) => ~request' ]_vars

\* C1 witness: a call was just refused while the run in flight had already
\* recorded a result and was waiting for the next child.
C1_Witness ==
    /\ request
    /\ notice = [kind |-> "AlreadyRunning"]
    /\ isSyncing
    /\ pc = "await"
    /\ Len(results) = 1

\* C2: a run that ends leaves isSyncing false, whether its targets succeeded
\* or failed or threw; the flag is true exactly while a run is in progress;
\* with every child emitting 'close' or 'error', a run that started reaches
\* isSyncing = false; and a call of handleSync made while the flag is false
\* and a remote is enabled starts a run.
C2_GuaranteedRelease ==
    /\ [][ /\ (isSyncing /\ pc' = "idle") => ~isSyncing'
           /\ (~isSyncing /\ request'
                 /\ \E i \in 1..Len(remotes) : objs[remotes[i]].enable) =>
                (isSyncing' /\ pc' = "loop" /\ pos' = 1 /\ results' = << >>) ]_vars
    /\ [](isSyncing <=> pc # "idle")
    /\ (isSyncing ~> ~isSyncing)

\* C2 witness: a run with a failed target has ended and the flag is false.
C2_Witness ==
    /\ ~isSyncing
    /\ notice.kind = "Complete"
    /\ statusBar = "Failed"
    /\ \E i \in 1..Len(notice.lines) : IsFailure(notice.lines[i].summary)

\* C3: a target whose child could not be spawned or exited with a non-zero
\* code gets a failed result and the loop goes on: after the loop every target
\* of the snapshot has been run and has its own result, a success exactly for
\* the children that exited with code 0; the only failure reported for a run
\* as a whole is the one of an empty snapshot.
C3_FailureIsolation ==
    /\ LoopDone =>
        /\ Len(results) = Len(enabledRemotes)
        /\ Len(invocations) = Len(enabledRemotes)
        /\ \A i \in 1..Len(enabledRemotes) :
            /\ results[i].remote = enabledRemotes[i]
            /\ invocations[i].remote = enabledRemotes[i]
            /\ results[i].success <=> invocations[i].end = "exit0"
            /\ invocations[i].end \in {"error", "exitN"} =>
                 IsFailure(results[i].summary)
    /\ notice.kind = "Error" => notice.message = "NoEnabledRemote"
    /\ (pc # "idle" /\ Len(results) > 0) => isSyncing

\* C3 witness: after the loop, the first target failed (its child exited with
\* a non-zero code) and the second one succeeded.
C3_Witness ==
    /\ LoopDone
    /\ Len(results) = 2
    /\ invocations[1].end = "exitN"
    /\ ~results[1].success
    /\ results[2].success

\* C4: runRcloneSync is called once for each target that was enabled when the
\* run started, in the order of the list, and for no other remote; a failed
\* target is not tried again; and while a child process of the run is alive no
\* further call is made (every earlier call has ended, and no continuation is
\* ready).
C4_SequentialOrder ==
    /\ Len(invocations) <= Len(atStart.enabled)
    /\ \A i \in 1..Len(invocations) :
        /\ invocations[i].remote = atStart.enabled[i]
        /\ i < Len(invocations) => invocations[i].end # "pending"
    /\ \A i, j \in 1..Len(invocations) :
        invocations[i].remote = invocations[j].remote => i = j
    /\ LoopDone => Len(invocations) = Len(atStart.enabled)
    /\ Running # {} =>
        /\ pc = "await"
        /\ invocations[Len(invocations)].end = "pending"
        /\ pos = Len(invocations)

\* C4 witness: the second call is in progress (its child is alive) after the
\* first target failed, with a disabled remote in the list at the start.
C4_Witness ==
    /\ Len(invocations) = 2
    /\ invocations[1].end = "exitN"
    /\ Running # {}
    /\ Len(atStart.enabled) = 2

\* C5: at most one child process is alive, at most one promise of
\* runRcloneSync is pending, and a child is alive or pending only while the
\* one run in progress awaits it.
C5_OneSubprocess ==
    /\ Cardinality(Running) <= 1
    /\ Cardinality(Unsettled) <= 1
    /\ Unsettled # {} => (isSyncing /\ pc = "await" /\ pos = Len(results) + 1)
    /\ pc = "await" => Unsettled # {}

\* C5 witness: the child of the second target is alive and a call of
\* handleSync was just made.
C5_Witness ==
    /\ Running # {}
    /\ pos = 2
    /\ request

\* C6: the targets of a run are the remotes enabled when it started, in that
\* order, whatever the settings panel does meanwhile: the snapshot does not
\* change during the run, the calls made and the results recorded so far are
\* for its first targets, and the targets still to run are its remaining ones.
C6_SnapshotIsolation ==
    pc # "idle" =>
        /\ enabledRemotes = atStart.enabled
        /\ pos \in 1..(Len(atStart.enabled) + 1)
        /\ \A i \in 1..Len(invocations) :
            invocations[i].remote = atStart.enabled[i]
        /\ \A i \in 1..Len(results) :
            results[i].remote = atStart.enabled[i]
        /\ Len(invocations) \in {pos - 1, pos}
        /\ Len(invocations) = pos => pc = "await"

\* C6 witness: the second target of the snapshot is being run although the
\* settings now hold no remote at all.
C6_Witness ==
    /\ pc = "await"
    /\ Len(invocations) = 2
    /\ remotes = << >>

\* C7 (as stated): every call of runRcloneSync of a run uses the rclonePath
\* and the remote address that the configuration gave when the run started.
C7_ReadOnlyConfig ==
    \A i \in 1..Len(invocations) :
        /\ invocations[i].exe = atStart.exe
        /\ invocations[i].addr = atStart.addrs[i]

\* C8: when a run ends, the final notice has one line per target of the
\* snapshot, in the order of the snapshot; line i carries the name of target i
\* (or the placeholder when it has none) and the summary of result i, which is
\* a failure summary exactly when target i failed.
C8_ResultOrder ==
    [][ RunEnds =>
          /\ Len(enabledRemotes) > 0
          /\ Len(results) = Len(enabledRemotes)
          /\ notice'.kind = "Complete"
          /\ Len(notice'.lines) = Len(enabledRemotes)
          /\ \A i \in 1..Len(enabledRemotes) :
              /\ results[i].remote = enabledRemotes[i]
              /\ notice'.lines[i].label =
                    (IF objs[enabledRemotes[i]].name = EmptyStr
                     THEN <<"?">> ELSE objs[enabledRemotes[i]].name)
              /\ notice'.lines[i].summary = results[i].summary
              /\ IsFailure(notice'.lines[i].summary) <=>
                    invocations[i].end # "exit0" ]_vars

\* C8 witness: a final notice of two lines, the first of an unnamed target
\* that failed, the second of a named target that succeeded.
C8_Witness ==
    /\ notice.kind = "Complete"
    /\ Len(notice.lines) = 2
    /\ notice.lines[1].label = <<"?">>
    /\ IsFailure(notice.lines[1].summary)
    /\ notice.lines[2].label = <<"a">>
    /\ ~IsFailure(notice.lines[2].summary)

\* C9: when a run ends, the status bar shows "Success" if every result is a
\* success, that is if every child of the run exited with code 0, and
\* "Failed" otherwise.
C9_OverallOutcome ==
    [][ RunEnds =>
          /\ statusBar' \in {"Success", "Failed"}
          /\ statusBar' = "Success" <=>
                \A i \in 1..Len(results) : results[i].success
          /\ statusBar' = "Success" <=>
                /\ Len(invocations) = Len(enabledRemotes)
                /\ \A i \in 1..Len(invocations) : invocations[i].end = "exit0" ]_vars

\* C9 witness: a run of two targets ended with one success and one failure and
\* the status bar shows "Failed".
C9_Witness ==
    /\ notice.kind = "Complete"
    /\ statusBar = "Failed"
    /\ Len(notice.lines) = 2
    /\ \E i, j \in 1..2 :
        IsFailure(notice.lines[i].summary) /\ ~IsFailure(notice.lines[j].summary)

\* C10: a call of handleSync made while no run is in progress and no remote
\* of the settings is enabled reports the "no enabled remote" error in the
\* same step: the status bar shows "Failed", isSyncing is false again, no
\* child is spawned, no result is recorded and runRcloneSync is not called.
C10_NoEnabledTargets ==
    [][ (request' /\ ~isSyncing
           /\ \A i \in 1..Len(remotes) : ~objs[remotes[i]].enable) =>
          /\ notice' = [kind |-> "Error", message |-> "NoEnabledRemote"]
          /\ statusBar' = "Failed"
          /\ ~isSyncing'
          /\ pc' = "idle"
          /\ children' = children
          /\ results' = << >>
          /\ invocations' = << >> ]_vars

\* C10 witness: the error was just reported for a list of two remotes that
\* are both disabled.
C10_Witness ==
    /\ request
    /\ notice = [kind |-> "Error", message |-> "NoEnabledRemote"]
    /\ Len(remotes) = 2
    /\ \A i \in 1..Len(remotes) : ~objs[remotes[i]].enable
    /\ ~isSyncing

\* The configuration errors of runRcloneSync: no rclone path, no remote
\* address.
IsConfigError(summary) ==
    /\ IsFailure(summary)
    /\ summary.message.kind \in {"NoRclonePath", "NoRemoteTarget"}

\* C11 (as stated): a configuration error (no rclone path, no remote address
\* of an enabled target) is the only failure of the run and the run is not
\* attempted: once a target has failed with it, no other target of the run is
\* or was called, no child of the run was spawned and none is alive.
C11_ConfigErrorAborts ==
    (\E i \in 1..Len(results) : IsConfigError(results[i].summary)) =>
        /\ Len(results) = 1
        /\ Len(invocations) = 1
        /\ invocations[1].end = "precondition"
        /\ children = << >>

\* C12: the result of a target is a success exactly when its child closed
\* with exit code 0; a child that closed with another code, or with none,
\* gives a failure that carries the code and the text of stderr, or the text
\* of stdout when stderr is empty; a child that emitted 'error' gives a
\* failure that carries the error, never a success.
C12_ExitHandling ==
    \A i \in 1..Len(results) :
        LET inv == invocations[i]
            closed == inv.end \in {"exit0", "exitN"}
        IN  /\ results[i].success <=> (closed /\ inv.code = <<0>>)
            /\ (closed /\ inv.code # <<0>>) =>
                  results[i].summary =
                    [form |-> "Failed",
                     message |-> [kind |-> "Exit", code |-> inv.code,
                                  text |-> IF inv.out[1].stderr # ""
                                           THEN inv.out[1].stderr
                                           ELSE inv.out[1].stdout]]
            /\ inv.end = "error" =>
                  /\ ~results[i].success
                  /\ results[i].summary =
                       [form |-> "Failed", message |-> [kind |-> "SpawnError"]]

\* C12 witness: a child closed without an exit code and with nothing on
\* stderr; the failure carries the text of stdout.
C12_Witness ==
    /\ Len(results) = 1
    /\ invocations[1].end = "exitN"
    /\ invocations[1].code = << >>
    /\ invocations[1].out[1].stderr = ""
    /\ results[1].summary.message.text = "out"

\* C13: for every name and path of a remote, the address given to rclone is
\* the path when the path holds a ':', else the name, a ':' and the path when
\* the name is not empty; else there is no address: the call fails without a
\* child being spawned, with the "no remote address" error when the rclone
\* path and the vault path are there.  A remote that has an address is not
\* refused for its address.
C13_RemoteAddress ==
    \A i \in 1..Len(invocations) :
        LET inv == invocations[i]
            name == objs[inv.remote].name
            path == objs[inv.remote].path
            delimited == \E k \in 1..Len(path) : path[k] = ":"
            ready == rclonePath # EmptyStr /\ vaultPath # EmptyStr
        IN  /\ delimited => inv.addr = path
            /\ (~delimited /\ name # << >>) => inv.addr = name \o <<":">> \o path
            /\ (~delimited /\ name = << >>) =>
                  /\ inv.end = "precondition"
                  /\ children = << >>
                  /\ i <= Len(results)
                  /\ ~results[i].success
                  /\ ready => results[i].summary =
                        [form |-> "Failed", message |-> [kind |-> "NoRemoteTarget"]]
            /\ ((delimited \/ name # << >>) /\ ready) => inv.end # "precondition"

\* C13 witness: a remote with a name and a path that holds a ':' is being
\* run with the path alone as its address.
C13_Witness ==
    /\ Len(invocations) = 1
    /\ invocations[1].end = "pending"
    /\ objs[invocations[1].remote].name = <<"a">>
    /\ objs[invocations[1].remote].path = <<":", "a">>
    /\ invocations[1].addr = <<":", "a">>

C15_MigratedOnce == migrated <= 1

\* C16: a call of runRcloneSync made while the rclone path is empty, the
\* vault path is unavailable, or the remote has neither a name nor a path
\* with a ':' fails at once: no child is spawned, a failed result is recorded
\* and the loop goes on.
C16_PreconditionsFirst ==
    [][ (/\ pc = "loop"
         /\ pos <= Len(enabledRemotes)
         /\ \/ rclonePath = EmptyStr
            \/ vaultPath = EmptyStr
            \/ /\ objs[enabledRemotes[pos]].name = EmptyStr
               /\ \A k \in 1..Len(objs[enabledRemotes[pos]].path) :
                     objs[enabledRemotes[pos]].path[k] # ":") =>
          /\ children' = children
          /\ Len(results') = Len(results) + 1
          /\ ~results'[Len(results')].success
          /\ results'[Len(results')].summary.message.kind \in
                {"NoRclonePath", "NoVaultPath", "NoRemoteTarget"}
          /\ invocations'[Len(invocations')].end = "precondition"
          /\ pc' = "loop" ]_vars

\* C16 witness: a call has failed for the vault path, with an rclone path and
\* an address present, and no child exists.
C16_Witness ==
    /\ Len(results) = 1
    /\ ~results[1].success
    /\ results[1].summary.message.kind = "NoVaultPath"
    /\ rclonePath # EmptyStr
    /\ invocations[1].addr # EmptyStr
    /\ children = << >>

\* C17 (as stated): the close handler computes a summary of the output only
\* for a child that exited with code 0.
C17_ParserOnSuccessOnly ==
    \A i \in 1..Len(invocations) :
        invocations[i].parsed => invocations[i].code = <<0>>

\* C18: every call of runRcloneSync gives one result, whatever events its
\* child emits: the results are those of the calls that have ended, in
\* order; a call ended by 'error' keeps its spawn-error result when the
\* 'close' of that child comes later; the loop is one position past the
\* results; and exactly the calls still pending have a child whose event is
\* awaited.
C18_SettlesOnce ==
    /\ Len(results) =
         Cardinality({ i \in 1..Len(invocations) : invocations[i].end # "pending" })
    /\ \A i \in 1..Len(results) :
         /\ invocations[i].end # "pending"
         /\ results[i].remote = invocations[i].remote
         /\ results[i].success <=> invocations[i].end = "exit0"
         /\ invocations[i].end = "error" =>
               results[i].summary =
                 [form |-> "Failed", message |-> [kind |-> "SpawnError"]]
    /\ pc # "idle" => pos = Len(results) + 1
    /\ Cardinality(Unsettled) =
         Cardinality({ i \in 1..Len(invocations) : invocations[i].end = "pending" })

\* C18 witness: the first target ended by 'error', the 'close' of its child
\* has come since (no child is left), the second target has its own result
\* and the loop is over.
C18_Witness ==
    /\ LoopDone
    /\ Len(results) = 2
    /\ invocations[1].end = "error"
    /\ invocations[2].end = "exit0"
    /\ children = << >>

\* C19: once onload has made the status bar item, the status shows
\* "Syncing" exactly while isSyncing is true (before that there is no status
\* and no run); and a step after which the status is "Success" or "Failed"
\* either changes neither the status nor the flag, which is false, or is the
\* end of a run: it leaves isSyncing false and shows the notice of the run.
C19_StatusAgreesWithGuard ==
    /\ [](loaded => (statusBar = "Syncing" <=> isSyncing))
    /\ [](~loaded => (statusBar = "null" /\ ~isSyncing))
    /\ [][ statusBar' \in {"Success", "Failed"} =>
             \/ (statusBar' = statusBar /\ ~isSyncing /\ ~isSyncing')
             \/ /\ ~isSyncing'
                /\ pc' = "idle"
                /\ notice'.kind \in {"Complete", "Error"} ]_vars

\* C19 witness: a call of handleSync was just refused while the run in
\* progress waits for a child: the status still shows "Syncing".
C19_Witness ==
    /\ request
    /\ pc = "await"
    /\ isSyncing
    /\ statusBar = "Syncing"
    /\ Len(results) = 1

====
